---------------------------- MODULE Spec2Model ----------------------------
(***************************************************************************)
(* The attendance pages of jcodes2003/attendance as one state machine.     *)
(*                                                                         *)
(* The repository holds three builds of the scanner page and the student   *)
(* page.  One build is deployed at a time; `variant` says which:           *)
(*   "lock"  the lock/PIN page         src/unnamed/part_002, lines 389-739 *)
(*   "org"   the organizer-ledger page src/unnamed/part_001                *)
(*   "log"   the scan-log page         src/unnamed/part_002, lines 1-385   *)
(*                                                                         *)
(* React is modelled as React runs the code.  `st` is the component state  *)
(* (the latest value given to each setter).  `rendered` is the state as of *)
(* the last render: every useCallback/useMemo/useEffect closure reads      *)
(* `rendered`, never `st`.  A handler called from the scanner or a timer   *)
(* only schedules a render (action Render); a handler called from a click  *)
(* is followed by the render in the same step, as React flushes discrete   *)
(* events synchronously.  Refs and localStorage are read and written in    *)
(* place.  Passive effects run in FlushEffects, after the render that      *)
(* scheduled them.                                                         *)
(*                                                                         *)
(* Text inputs (the name typed in the manual-entry box, the PIN typed in   *)
(* the PIN box) are the parameters of the click actions; the input boxes'  *)
(* own state (manualName, pinInput) is not kept.  The scan-log page's      *)
(* Stop/Start Scanner toggle (isScanning, part_002 line 96) and the export *)
(* buttons change no state that a handler reads; the scanner is taken to   *)
(* be running.                                                             *)
(*                                                                         *)
(* An accented letter is written decomposed: the letter followed by the    *)
(* combining mark, for which the character ' stands ("JOSE'" is JOSE with  *)
(* an acute accent on the E).                                              *)
(***************************************************************************)
EXTENDS Integers, Sequences, FiniteSets, TLC

VARIABLES
    variant,    \* which build of the scanner page is deployed
    now,        \* Date.now(), in ms since the start
    st,         \* React state of HomePage
    rendered,   \* the state captured by the closures of the last render
    effects,    \* passive effects scheduled by the last render, not yet run
    timers,     \* deadlines of the pending setTimeout callbacks
    ls,         \* localStorage
    ref,        \* useRef values
    issued,     \* how many device ids crypto.randomUUID() has produced
    ev,         \* the last handled event and the path its handler took
    kept,       \* records admitted and not cleared or removed since, each
                \* with the scanned text it came from ("" for a typed name)
    keptPrev    \* the records admitted before the most recent event and not
                \* cleared or removed by it

vars == <<variant, now, st, rendered, effects, timers, ls, ref, issued, ev, kept, keptPrev>>

-----------------------------------------------------------------------------
(* Bounds of the model *)

Tick == 1200
MaxTime == 2400
MaxEntries == 2
MaxIds == 2

(* Program constants *)

JustScannedMs == 1200
DebounceMs == 1500

ORGANIZER_PIN == "1234"

-----------------------------------------------------------------------------
(* Strings: String.prototype.trim and Intl collation *)

RECURSIVE TrimStart(_)
TrimStart(s) ==
    IF s = "" THEN ""
    ELSE IF Head(s) = " " THEN TrimStart(Tail(s)) ELSE s

RECURSIVE TrimEnd(_)
TrimEnd(s) ==
    IF s = "" THEN ""
    ELSE IF SubSeq(s, Len(s), Len(s)) = " " THEN TrimEnd(SubSeq(s, 1, Len(s) - 1)) ELSE s

trim(s) == TrimEnd(TrimStart(s))

Upper == "ABCDEFGHIJKLMNOPQRSTUVWXYZ"
Lower == "abcdefghijklmnopqrstuvwxyz"

LowerChar(c) ==
    IF \E i \in 1..Len(Upper) : SubSeq(Upper, i, i) = c
    THEN LET i == CHOOSE i \in 1..Len(Upper) : SubSeq(Upper, i, i) = c
         IN  SubSeq(Lower, i, i)
    ELSE c

RECURSIVE FoldCase(_)
FoldCase(s) == IF s = "" THEN "" ELSE LowerChar(Head(s)) \o FoldCase(Tail(s))

RECURSIVE StripMarks(_)
StripMarks(s) ==
    IF s = "" THEN ""
    ELSE IF Head(s) = "'" THEN StripMarks(Tail(s)) ELSE Head(s) \o StripMarks(Tail(s))

\* a.localeCompare(b, undefined, { sensitivity: "base" }) === 0:
\* neither case nor accents tell two strings apart.
SameBase(a, b) == FoldCase(StripMarks(a)) = FoldCase(StripMarks(b))

\* a.localeCompare(b, undefined, { sensitivity: "accent" }) === 0:
\* strings that differ in base letters or in accents are unequal, a = A.
localeCompare(a, b) == FoldCase(a) = FoldCase(b)

-----------------------------------------------------------------------------
(* JSON.parse on the payloads the model scans.  A JSON value is            *)
(* [t, s, e]: t its type, s the text of a string, e the entries of an      *)
(* object in key order.  t = "error" stands for the SyntaxError JSON.parse *)
(* throws on text that is not JSON.                                        *)

JStr(s) == [t |-> "string", s |-> s, e |-> <<>>]
JObj(e) == [t |-> "object", s |-> "", e |-> e]
JNull == [t |-> "null", s |-> "", e |-> <<>>]
JNum(s) == [t |-> "number", s |-> s, e |-> <<>>]
JArr == [t |-> "array", s |-> "", e |-> <<>>]
JError == [t |-> "error", s |-> "", e |-> <<>>]
JUndefined == [t |-> "undefined", s |-> "", e |-> <<>>]

P_AnnD1 == "{\"name\":\"Ann\",\"deviceId\":\"d1\"}"
P_BobD1 == "{\"name\":\"Bob\",\"deviceId\":\"d1\"}"
P_AnnD2 == "{\"name\":\"Ann\",\"deviceId\":\"d2\"}"
P_IdD1 == "{\"id\":\"d1\"}"
P_Plain == " Plain Name "
P_Null == "null"
P_Num == "5"
P_Arr == "[1]"
P_NumName == "{\"name\":5,\"deviceId\":\"d1\"}"
P_NumId == "{\"name\":\"Ann\",\"deviceId\":5}"
P_FirstLast == "{\"firstName\":\"Ann\",\"lastName\":\"Lee\"}"
P_Padded == "{\"name\":\" Ann \",\"deviceId\":\" d1 \"}"
P_Order == "{\"username\":\"u1\",\"fullName\":\"Ann Lee\"}"
P_BlankName == "{\"name\":\"  \",\"owner\":\"Ann\"}"
P_NoName == "{\"deviceId\":\"d1\"}"
P_Blank == "  "
P_BlankId == "{\"deviceId\":\"  \",\"id\":\"d1\"}"
P_Nested == "{\"deviceId\":{\"id\":7},\"id\":\"d1\"}"
P_Loose == "{\"name\":\"Ann\",\"studentId\":\" s1 \"}"
P_NameOnly == "{\"name\":\"Ann\"}"

JSONparse(text) ==
    CASE text = P_AnnD1 -> JObj(<< <<"name", JStr("Ann")>>, <<"deviceId", JStr("d1")>> >>)
      [] text = P_BobD1 -> JObj(<< <<"name", JStr("Bob")>>, <<"deviceId", JStr("d1")>> >>)
      [] text = P_AnnD2 -> JObj(<< <<"name", JStr("Ann")>>, <<"deviceId", JStr("d2")>> >>)
      [] text = P_IdD1 -> JObj(<< <<"id", JStr("d1")>> >>)
      [] text = P_Null -> JNull
      [] text = P_Num -> JNum("5")
      [] text = P_Arr -> JArr
      [] text = P_NumName -> JObj(<< <<"name", JNum("5")>>, <<"deviceId", JStr("d1")>> >>)
      [] text = P_NumId -> JObj(<< <<"name", JStr("Ann")>>, <<"deviceId", JNum("5")>> >>)
      [] text = P_FirstLast -> JObj(<< <<"firstName", JStr("Ann")>>, <<"lastName", JStr("Lee")>> >>)
      [] text = P_Padded -> JObj(<< <<"name", JStr(" Ann ")>>, <<"deviceId", JStr(" d1 ")>> >>)
      [] text = P_Order -> JObj(<< <<"username", JStr("u1")>>, <<"fullName", JStr("Ann Lee")>> >>)
      [] text = P_BlankName -> JObj(<< <<"name", JStr("  ")>>, <<"owner", JStr("Ann")>> >>)
      [] text = P_NoName -> JObj(<< <<"deviceId", JStr("d1")>> >>)
      [] text = P_BlankId -> JObj(<< <<"deviceId", JStr("  ")>>, <<"id", JStr("d1")>> >>)
      [] text = P_Nested ->
            JObj(<< <<"deviceId", JObj(<< <<"id", JNum("7")>> >>)>>, <<"id", JStr("d1")>> >>)
      [] text = P_Loose -> JObj(<< <<"name", JStr("Ann")>>, <<"studentId", JStr(" s1 ")>> >>)
      [] text = P_NameOnly -> JObj(<< <<"name", JStr("Ann")>> >>)
      [] OTHER -> JError

\* Object.prototype.hasOwnProperty.call(obj, key)
hasOwnProperty(obj, key) ==
    obj.t = "object" /\ \E i \in 1..Len(obj.e) : obj.e[i][1] = key

\* obj[key]: the value of the key, undefined when there is none
Get(obj, key) ==
    IF hasOwnProperty(obj, key)
    THEN obj.e[CHOOSE i \in 1..Len(obj.e) : obj.e[i][1] = key][2]
    ELSE JUndefined

-----------------------------------------------------------------------------
(* Messages shown by the pages *)

LockedMsg == "Organizer lock is enabled. Unlock to save attendance."
AlreadyMsg == "You have already checked in from this device."
SelfOkMsg == "Check-in recorded on this device. Please show your QR to the organizer."
NoNameMsg == "QR does not contain a valid name."
DeviceDupMsg == "This device has already checked in."
InvalidPinMsg == "Invalid PIN"

-----------------------------------------------------------------------------
(* State after construction *)

InitialState ==
    [ mode |-> "scanner",
      entries |-> <<>>,
      justScanned |-> FALSE,
      selfAttempted |-> FALSE,
      organizerUnlocked |-> FALSE,
      scanError |-> "",
      infoMessage |-> "",
      unlockError |-> "",
      scannedItems |-> <<>>,
      statusMessage |-> "Align a QR code within the frame" ]

InitialRefs == [deviceId |-> "", lastRaw |-> "", lastTime |-> 0]

\* The effects the first render schedules: every useEffect of the page.
MountEffects ==
    CASE variant = "lock" -> {"mount", "forceSelf"}
      [] variant = "org" -> {"mount"}
      [] variant = "log" -> {"load", "persist"}

\* The last handled event: the operation, its input, the path the handler
\* took, the time, and whether the handler belonged to a render older than
\* the state (a render was pending when it ran).
NoEvent == [op |-> "none", arg |-> "", out |-> "", t |-> 0, stale |-> FALSE]

Event(op, arg, out) ==
    [op |-> op, arg |-> arg, out |-> out, t |-> now, stale |-> st # rendered]

Variants == {"lock", "org", "log"}

\* localStorage of a browser that never opened the page.  hasScans tells a
\* stored "[]" from no stored value under "qratt:scans"; the other keys are
\* read with a test that takes the absent and the empty value alike.
EmptyStorage ==
    [list |-> <<>>, deviceId |-> "", self |-> "", hasScans |-> FALSE, scans |-> <<>>]

Init ==
    /\ variant \in Variants
    /\ now = 0
    /\ st = InitialState
    /\ rendered = InitialState
    /\ effects = MountEffects
    /\ timers = {}
    /\ ls = EmptyStorage
    /\ ref = InitialRefs
    /\ issued = 0
    /\ ev = NoEvent
    /\ kept = {}
    /\ keptPrev = {}

-----------------------------------------------------------------------------
(* Device identity *)

UUIDs == <<"uuid-1", "uuid-2", "uuid-3", "uuid-4">>

\* getOrCreateDeviceId, were it to generate an id on every call
getOrCreateDeviceId_always(store, fresh) ==
    [id |-> fresh, store |-> [store EXCEPT !.deviceId = fresh], created |-> TRUE]

\* getOrCreateDeviceId() on storage `store`: the id it returns and the
\* storage it leaves; `fresh` is the value crypto.randomUUID() would give.
getOrCreateDeviceId(store, fresh) ==
    IF store.deviceId = ""
    THEN [id |-> fresh, store |-> [store EXCEPT !.deviceId = fresh], created |-> TRUE]
    ELSE [id |-> store.deviceId, store |-> store, created |-> FALSE]

\* readAttendance()
readAttendance(store) == store.list

\* writeAttendance(entries)
writeAttendance(store, entries) == [store EXCEPT !.list = entries]

-----------------------------------------------------------------------------
(* Ledger *)

Range(seq) == {seq[i] : i \in 1..Len(seq)}

\* addEntry, were it not to refuse the empty name
addEntry_blankAdmitted(entries, deviceId, t, nameRaw) ==
    LET name == trim(nameRaw)
        exists == \E i \in 1..Len(entries) : localeCompare(entries[i].name, name)
    IN  IF exists THEN [out |-> "duplicate", updated |-> entries]
        ELSE [out |-> "added",
              updated |-> <<[name |-> name, deviceId |-> deviceId, timestamp |-> t]>>
                          \o entries]

\* addEntry, were it not to look for the name in the list
addEntry_noDedup(entries, deviceId, t, nameRaw) ==
    LET name == trim(nameRaw)
    IN  IF name = "" THEN [out |-> "invalid", updated |-> entries]
        ELSE [out |-> "added",
              updated |-> <<[name |-> name, deviceId |-> deviceId, timestamp |-> t]>>
                          \o entries]

\* addEntry, were it to leave the record without the acting device's id
addEntry_unstamped(entries, deviceId, t, nameRaw) ==
    LET name == trim(nameRaw)
        exists == \E i \in 1..Len(entries) : localeCompare(entries[i].name, name)
    IN  IF name = "" THEN [out |-> "invalid", updated |-> entries]
        ELSE IF exists THEN [out |-> "duplicate", updated |-> entries]
        ELSE [out |-> "added",
              updated |-> <<[name |-> name, deviceId |-> "", timestamp |-> t]>>
                          \o entries]

\* addEntry(nameRaw) as built by a render whose entries are `entries`:
\* the path taken and the list given to setEntries and writeAttendance.
addEntry(entries, deviceId, t, nameRaw) ==
    LET name == trim(nameRaw)
        exists == \E i \in 1..Len(entries) : localeCompare(entries[i].name, name)
    IN  IF name = "" THEN [out |-> "invalid", updated |-> entries]
        ELSE IF exists THEN [out |-> "duplicate", updated |-> entries]
        ELSE [out |-> "added",
              updated |-> <<[name |-> name, deviceId |-> deviceId, timestamp |-> t]>>
                          \o entries]

\* The insertion of a sort that is not stable
RECURSIVE InsertDesc_unstable(_, _)
InsertDesc_unstable(sorted, e) ==
    IF sorted = <<>> THEN <<e>>
    ELSE IF Head(sorted).timestamp > e.timestamp
         THEN <<Head(sorted)>> \o InsertDesc_unstable(Tail(sorted), e)
         ELSE <<e>> \o sorted

\* sortedEntries: [...entries].sort((a, b) => b.timestamp.localeCompare(a.timestamp)),
\* a stable sort by timestamp, latest first.
RECURSIVE InsertDesc(_, _)
InsertDesc(sorted, e) ==
    IF sorted = <<>> THEN <<e>>
    ELSE IF Head(sorted).timestamp >= e.timestamp
         THEN <<Head(sorted)>> \o InsertDesc(Tail(sorted), e)
         ELSE <<e>> \o sorted

RECURSIVE sortedEntries(_)
sortedEntries(entries) ==
    IF entries = <<>> THEN <<>>
    ELSE InsertDesc(sortedEntries(SubSeq(entries, 1, Len(entries) - 1)),
                    entries[Len(entries)])

-----------------------------------------------------------------------------
(* Handlers of the lock/PIN page.  Each is the handler as built by the     *)
(* render `r`, called when the state is `s` and the storage `store`; the   *)
(* result gives the state and storage it leaves, the path it took (out),   *)
(* whether it started the justScanned timer, and the records it admitted.  *)

Result(s, store, out, timer, added) ==
    [st |-> s, ls |-> store, out |-> out, timer |-> timer, added |-> added]

\* The part of handleDecode and handleManualAdd that calls addEntry.
Submit(r, s, store, deviceId, t, nameRaw) ==
    LET a == addEntry(r.entries, deviceId, t, nameRaw)
    IN  IF a.out = "added"
        THEN Result([s EXCEPT !.entries = a.updated],
                    writeAttendance(store, a.updated),
                    "added", FALSE, {a.updated[1]})
        ELSE Result(s, store, a.out, FALSE, {})

\* handleDecode without its mode branch: every decode goes to the lock check
handleDecode_anyMode(r, s, store, deviceId, t, result) ==
    IF r.justScanned THEN Result(s, store, "debounced", FALSE, {})
    ELSE IF ~r.organizerUnlocked
    THEN Result([s EXCEPT !.justScanned = TRUE, !.scanError = LockedMsg, !.infoMessage = ""],
                store, "locked", TRUE, {})
    ELSE LET sub == Submit(r, [s EXCEPT !.justScanned = TRUE, !.scanError = "",
                                        !.infoMessage = ""],
                           store, deviceId, t, result)
         IN  [sub EXCEPT !.timer = TRUE]

\* handleDecode, were its self branch to refuse a text without a name
handleDecode_lock_validating(r, s, store, deviceId, t, result) ==
    IF r.justScanned THEN Result(s, store, "debounced", FALSE, {})
    ELSE
    LET s1 == [s EXCEPT !.justScanned = TRUE, !.scanError = "", !.infoMessage = ""]
    IN  IF r.mode = "self"
        THEN IF r.selfAttempted
             THEN Result([s1 EXCEPT !.scanError = AlreadyMsg], store,
                         "already-checked-in", TRUE, {})
             ELSE IF trim(result) = ""
             THEN Result([s1 EXCEPT !.scanError = NoNameMsg], store, "no-name", TRUE, {})
             ELSE Result([s1 EXCEPT !.selfAttempted = TRUE, !.infoMessage = SelfOkMsg],
                         [store EXCEPT !.self = "true"],
                         "self-confirmed", TRUE, {})
        ELSE IF ~r.organizerUnlocked
        THEN Result([s1 EXCEPT !.scanError = LockedMsg], store, "locked", TRUE, {})
        ELSE LET sub == Submit(r, s1, store, deviceId, t, result)
             IN  [sub EXCEPT !.timer = TRUE]

\* handleDecode, were it to raise the flag without starting the timer
handleDecode_lock_noTimer(r, s, store, deviceId, t, result) ==
    IF r.justScanned THEN Result(s, store, "debounced", FALSE, {})
    ELSE
    LET s1 == [s EXCEPT !.justScanned = TRUE, !.scanError = "", !.infoMessage = ""]
    IN  IF r.mode = "self"
        THEN IF r.selfAttempted
             THEN Result([s1 EXCEPT !.scanError = AlreadyMsg], store,
                         "already-checked-in", FALSE, {})
             ELSE Result([s1 EXCEPT !.selfAttempted = TRUE, !.infoMessage = SelfOkMsg],
                         [store EXCEPT !.self = "true"],
                         "self-confirmed", FALSE, {})
        ELSE IF ~r.organizerUnlocked
        THEN Result([s1 EXCEPT !.scanError = LockedMsg], store, "locked", FALSE, {})
        ELSE Submit(r, s1, store, deviceId, t, result)

handleDecode_lock(r, s, store, deviceId, t, result) ==
    IF r.justScanned THEN Result(s, store, "debounced", FALSE, {})
    ELSE
    LET s1 == [s EXCEPT !.justScanned = TRUE, !.scanError = "", !.infoMessage = ""]
    IN  IF r.mode = "self"
        THEN IF r.selfAttempted
             THEN Result([s1 EXCEPT !.scanError = AlreadyMsg], store,
                         "already-checked-in", TRUE, {})
             ELSE Result([s1 EXCEPT !.selfAttempted = TRUE, !.infoMessage = SelfOkMsg],
                         [store EXCEPT !.self = "true"],
                         "self-confirmed", TRUE, {})
        ELSE IF ~r.organizerUnlocked
        THEN Result([s1 EXCEPT !.scanError = LockedMsg], store, "locked", TRUE, {})
        ELSE LET sub == Submit(r, s1, store, deviceId, t, result)
             IN  [sub EXCEPT !.timer = TRUE]

\* handleManualAdd without its lock check
handleManualAdd_unguarded(r, s, store, deviceId, t, manualName) ==
    IF trim(manualName) = "" THEN Result(s, store, "empty", FALSE, {})
    ELSE Submit(r, s, store, deviceId, t, manualName)

\* handleManualAdd, were it to take the self check-in branch in self mode
handleManualAdd_selfGated(r, s, store, deviceId, t, manualName) ==
    IF trim(manualName) = "" THEN Result(s, store, "empty", FALSE, {})
    ELSE IF r.mode = "self"
    THEN Result([s EXCEPT !.selfAttempted = TRUE], [store EXCEPT !.self = "true"],
                "self-confirmed", FALSE, {})
    ELSE IF ~r.organizerUnlocked
    THEN Result([s EXCEPT !.scanError = LockedMsg], store, "locked", FALSE, {})
    ELSE Submit(r, s, store, deviceId, t, manualName)

handleManualAdd_lock(r, s, store, deviceId, t, manualName) ==
    IF trim(manualName) = "" THEN Result(s, store, "empty", FALSE, {})
    ELSE IF ~r.organizerUnlocked
    THEN Result([s EXCEPT !.scanError = LockedMsg], store, "locked", FALSE, {})
    ELSE Submit(r, s, store, deviceId, t, manualName)

\* The Unlock button's onClick, were the PIN compared after trimming
unlock_trimmed(s, pinInput) ==
    IF trim(pinInput) = ORGANIZER_PIN
    THEN [s EXCEPT !.organizerUnlocked = TRUE, !.unlockError = ""]
    ELSE [s EXCEPT !.unlockError = InvalidPinMsg]

\* The Unlock button's onClick
unlock(s, pinInput) ==
    IF pinInput = ORGANIZER_PIN
    THEN [s EXCEPT !.organizerUnlocked = TRUE, !.unlockError = ""]
    ELSE [s EXCEPT !.unlockError = InvalidPinMsg]

\* clearAll, were it to engage the organizer lock again
clearAll_lock_relocking(s, store) ==
    Result([s EXCEPT !.entries = <<>>, !.organizerUnlocked = FALSE],
           writeAttendance(store, <<>>), "cleared", FALSE, {})

clearAll_lock(s, store) ==
    Result([s EXCEPT !.entries = <<>>], writeAttendance(store, <<>>), "cleared", FALSE, {})

-----------------------------------------------------------------------------
(* Handlers of the organizer-ledger page *)

\* JavaScript's truthiness of a JSON value
Truthy(v) ==
    CASE v.t = "string" -> v.s # ""
      [] v.t = "number" -> v.s # "0"
      [] v.t \in {"object", "array"} -> TRUE
      [] OTHER -> FALSE

\* parsed && parsed[key] ? parsed[key] : "", without the trim
FieldText_untrimmed(parsed, key) ==
    LET v == IF Truthy(parsed) THEN Get(parsed, key) ELSE JUndefined
    IN  IF ~Truthy(v) THEN [threw |-> FALSE, s |-> ""]
        ELSE IF v.t = "string" THEN [threw |-> FALSE, s |-> v.s]
        ELSE [threw |-> TRUE, s |-> ""]

\* (parsed && parsed[key] ? parsed[key] : "").trim(): the text, or the
\* TypeError of calling trim on a truthy value that is not a string.
FieldText(parsed, key) ==
    LET v == IF Truthy(parsed) THEN Get(parsed, key) ELSE JUndefined
    IN  IF ~Truthy(v) THEN [threw |-> FALSE, s |-> ""]
        ELSE IF v.t = "string" THEN [threw |-> FALSE, s |-> trim(v.s)]
        ELSE [threw |-> TRUE, s |-> ""]

\* try { parsed = JSON.parse(result) } catch { parsed = { name: result } }
parsePayload(result) ==
    LET json == JSONparse(result)
    IN  IF json.t = "error" THEN JObj(<< <<"name", JStr(result)>> >>) ELSE json

handleDecode_org(r, s, store, deviceId, t, result) ==
    IF r.justScanned THEN Result(s, store, "debounced", FALSE, {})
    ELSE
    LET s1 == [s EXCEPT !.justScanned = TRUE, !.scanError = "", !.infoMessage = ""]
        parsed == parsePayload(result)
        incomingName == FieldText(parsed, "name")
        incomingDeviceId == FieldText(parsed, "deviceId")
    IN  IF incomingName.threw \/ incomingDeviceId.threw
        THEN Result(s1, store, "threw", TRUE, {})
        ELSE IF incomingName.s = ""
        THEN Result([s1 EXCEPT !.scanError = NoNameMsg], store, "no-name", TRUE, {})
        ELSE IF /\ incomingDeviceId.s # ""
                /\ \E i \in 1..Len(r.entries) : r.entries[i].deviceId = incomingDeviceId.s
        THEN Result([s1 EXCEPT !.scanError = DeviceDupMsg], store, "device-duplicate", TRUE, {})
        ELSE LET sub == Submit(r, s1, store, deviceId, t, incomingName.s)
             IN  [sub EXCEPT !.timer = TRUE]

handleManualAdd_org(r, s, store, deviceId, t, manualName) ==
    IF trim(manualName) = "" THEN Result(s, store, "empty", FALSE, {})
    ELSE Submit(r, s, store, deviceId, t, manualName)

\* clearAll of the organizer-ledger page, were it to leave the stored list
clearAll_org_keepList(s, store, fresh) ==
    LET removed == [store EXCEPT !.deviceId = ""]
        g == getOrCreateDeviceId(removed, fresh)
    IN  [st |-> [s EXCEPT !.entries = <<>>, !.scanError = "", !.infoMessage = ""],
         ls |-> g.store,
         deviceId |-> g.id]

\* clearAll of the organizer-ledger page, were it to leave the ref as it was
clearAll_org_staleRef(s, store, fresh) ==
    LET removed == [store EXCEPT !.list = <<>>, !.deviceId = ""]
        g == getOrCreateDeviceId(removed, fresh)
    IN  [st |-> [s EXCEPT !.entries = <<>>, !.scanError = "", !.infoMessage = ""],
         ls |-> writeAttendance(g.store, <<>>),
         deviceId |-> store.deviceId]

\* clearAll of the organizer-ledger page; `fresh` is the next random UUID.
clearAll_org(s, store, fresh) ==
    LET removed == [store EXCEPT !.list = <<>>, !.deviceId = ""]
        g == getOrCreateDeviceId(removed, fresh)
    IN  [st |-> [s EXCEPT !.entries = <<>>, !.scanError = "", !.infoMessage = ""],
         ls |-> writeAttendance(g.store, <<>>),
         deviceId |-> g.id]

-----------------------------------------------------------------------------
(* Handlers of the scan-log page *)

null == "<null>"

nameCandidateKeys ==
    <<"name", "fullName", "studentName", "student_name", "ownerName", "owner",
      "userName", "username", "firstName", "lastName">>

candidateKeys == <<"deviceId", "deviceID", "device_id", "id", "device">>

Min(S) == CHOOSE x \in S : \A y \in S : x <= y

\* typeof value === "string" && value.trim()
NonEmptyString(v) == v.t = "string" /\ trim(v.s) # ""

\* /id/i.test(key)
LooksLikeId(key) ==
    \E i \in 1..(Len(key) - 1) : FoldCase(SubSeq(key, i, i + 1)) = "id"

\* String(value)
StringOf(v) ==
    CASE v.t \in {"string", "number"} -> v.s
      [] OTHER -> "[object Object]"

extractedName(parsed) ==
    LET hits == {i \in 1..Len(nameCandidateKeys) :
                    /\ hasOwnProperty(parsed, nameCandidateKeys[i])
                    /\ NonEmptyString(Get(parsed, nameCandidateKeys[i]))}
        first == Get(parsed, "firstName")
        last == Get(parsed, "lastName")
    IN  IF hits # {} THEN trim(Get(parsed, nameCandidateKeys[Min(hits)]).s)
        ELSE IF first.t = "string" /\ last.t = "string"
                /\ trim(first.s \o " " \o last.s) # ""
        THEN trim(first.s \o " " \o last.s)
        ELSE null

\* A round of the candidateKeys loop that takes strings only
CandidateId_noNested(parsed, key) ==
    LET value == Get(parsed, key)
    IN  IF hasOwnProperty(parsed, key) /\ NonEmptyString(value) THEN trim(value.s) ELSE ""

\* What one round of the candidateKeys loop returns, "" when it goes on
CandidateId(parsed, key) ==
    LET value == Get(parsed, key)
    IN  IF ~hasOwnProperty(parsed, key) THEN ""
        ELSE IF NonEmptyString(value) THEN trim(value.s)
        ELSE IF Truthy(value) /\ value.t \in {"object", "array"} /\ Truthy(Get(value, "id"))
        THEN trim(StringOf(Get(value, "id")))
        ELSE ""

parseDeviceIdFromQrPayload(payload) ==
    LET trimmed == trim(payload)
        parsed == JSONparse(trimmed)
    IN  IF parsed.t \in {"error", "null"}
        THEN [deviceId |-> trimmed, name |-> null, metadata |-> JNull]
        ELSE
        LET name == extractedName(parsed)
            hits == {i \in 1..Len(candidateKeys) : CandidateId(parsed, candidateKeys[i]) # ""}
            loose == {i \in 1..Len(parsed.e) :
                        /\ parsed.e[i][2].t = "string"
                        /\ LooksLikeId(parsed.e[i][1])
                        /\ trim(parsed.e[i][2].s) # ""}
        IN  IF hits # {}
            THEN [deviceId |-> CandidateId(parsed, candidateKeys[Min(hits)]),
                  name |-> name, metadata |-> parsed]
            ELSE IF loose # {}
            THEN [deviceId |-> trim(parsed.e[Min(loose)][2].s), name |-> name, metadata |-> parsed]
            ELSE [deviceId |-> trimmed, name |-> name, metadata |-> parsed]

\* deviceIdSet, as memoized by the render `r`
deviceIdSet(r) == {r.scannedItems[i].deviceId : i \in 1..Len(r.scannedItems)}

\* The debounce test with the window of the ledger pages
debounced_shortWindow(rf, t, decodedText) ==
    rf.lastRaw = decodedText /\ t - rf.lastTime < JustScannedMs

\* The debounce test, were it not to look at the text
debounced_anyText(rf, t, decodedText) ==
    rf.lastRaw # "" /\ t - rf.lastTime < DebounceMs

\* lastRawRef.current === decodedText && now - lastTimeRef.current < 1500
debounced(rf, t, decodedText) ==
    rf.lastRaw = decodedText /\ t - rf.lastTime < DebounceMs

\* handleDecoded as built by the render `r`; refs are `rf`.
handleDecoded(r, s, rf, t, decodedText) ==
    IF debounced(rf, t, decodedText)
    THEN [st |-> s, ref |-> rf, out |-> "debounced", added |-> {}]
    ELSE
    LET rf1 == [rf EXCEPT !.lastRaw = decodedText, !.lastTime = t]
        p == parseDeviceIdFromQrPayload(decodedText)
        newItem == [deviceId |-> p.deviceId, rawData |-> decodedText, name |-> p.name,
                    metadata |-> p.metadata, scannedAt |-> t]
    IN  IF p.deviceId = ""
        THEN [st |-> [s EXCEPT !.statusMessage = "No device id found in QR"],
              ref |-> rf1, out |-> "no-device-id", added |-> {}]
        ELSE IF p.deviceId \in deviceIdSet(r)
        THEN [st |-> [s EXCEPT !.statusMessage = "Duplicate ignored: " \o p.deviceId],
              ref |-> rf1, out |-> "duplicate", added |-> {}]
        ELSE [st |-> [s EXCEPT !.scannedItems = <<newItem>> \o s.scannedItems,
                               !.statusMessage = "Saved: " \o p.deviceId],
              ref |-> rf1, out |-> "saved", added |-> {newItem}]

RECURSIVE Without(_, _)
Without(items, deviceId) ==
    IF items = <<>> THEN <<>>
    ELSE IF Head(items).deviceId = deviceId THEN Without(Tail(items), deviceId)
    ELSE <<Head(items)>> \o Without(Tail(items), deviceId)

removeItem(s, deviceId) == [s EXCEPT !.scannedItems = Without(s.scannedItems, deviceId)]

clearAll_log(s) == [s EXCEPT !.scannedItems = <<>>, !.statusMessage = "All scans cleared"]

-----------------------------------------------------------------------------
(* Rendering and effects *)

\* The effects a render schedules: those whose dependencies changed since
\* the render before.
Scheduled(prev, next) ==
    (IF variant = "lock"
        /\ (prev.organizerUnlocked # next.organizerUnlocked \/ prev.mode # next.mode)
     THEN {"forceSelf"} ELSE {})
    \cup
    (IF variant = "log" /\ prev.scannedItems # next.scannedItems
     THEN {"persist"} ELSE {})

\* The mount effect, were it not to read the stored self-attempt flag
mountEffect_forgetful(s, store, fresh) ==
    LET g == getOrCreateDeviceId(store, fresh)
    IN  [st |-> [s EXCEPT !.entries = readAttendance(g.store)],
         ls |-> g.store,
         deviceId |-> g.id,
         created |-> g.created]

\* The mount effect of the lock/PIN and organizer-ledger pages
mountEffect(s, store, fresh) ==
    LET g == getOrCreateDeviceId(store, fresh)
    IN  [st |-> [s EXCEPT !.entries = readAttendance(g.store),
                          !.selfAttempted = IF variant = "lock"
                                            THEN g.store.self = "true"
                                            ELSE s.selfAttempted],
         ls |-> g.store,
         deviceId |-> g.id,
         created |-> g.created]

\* The force-self effect, were it to do nothing
forceSelfEffect_never(r, s) == s

\* The effect that forces self mode while the organizer lock is engaged
forceSelfEffect(r, s) ==
    IF ~r.organizerUnlocked /\ r.mode = "scanner" THEN [s EXCEPT !.mode = "self"] ELSE s

\* The scan-log page's load effect
loadEffect(s, store) ==
    IF store.hasScans THEN [s EXCEPT !.scannedItems = store.scans] ELSE s

\* The scan-log page's persist effect
persistEffect(r, store) == [store EXCEPT !.hasScans = TRUE, !.scans = r.scannedItems]

\* A render scheduled by setState calls made outside React's event handlers
Render ==
    /\ effects = {}
    /\ st # rendered
    /\ rendered' = st
    /\ effects' = Scheduled(rendered, st)
    /\ UNCHANGED <<variant, now, st, timers, ls, ref, issued, ev, kept, keptPrev>>

\* The pending passive effects, run in the order the page declares them
FlushEffects ==
    /\ effects # {}
    /\ "mount" \in effects => issued < MaxIds
    /\ LET m == IF "mount" \in effects
                THEN mountEffect(st, ls, UUIDs[issued + 1])
                ELSE [st |-> st, ls |-> ls, deviceId |-> ref.deviceId, created |-> FALSE]
           s1 == IF "load" \in effects THEN loadEffect(m.st, m.ls) ELSE m.st
           s2 == IF "forceSelf" \in effects THEN forceSelfEffect(rendered, s1) ELSE s1
           l2 == IF "persist" \in effects THEN persistEffect(rendered, m.ls) ELSE m.ls
       IN  /\ st' = s2
           /\ ls' = l2
           /\ ref' = [ref EXCEPT !.deviceId = m.deviceId]
           /\ issued' = IF m.created THEN issued + 1 ELSE issued
    /\ effects' = {}
    /\ UNCHANGED <<variant, now, rendered, timers, ev, kept, keptPrev>>

\* The step a click handler ends with: React renders before anything else runs.
SyncRender(s) ==
    /\ st' = s
    /\ rendered' = s
    /\ effects' = Scheduled(rendered, s)

-----------------------------------------------------------------------------
(* Time *)

\* The setTimeout(() => setJustScanned(false), 1200) callback
TimerFire ==
    /\ \E d \in timers :
        /\ d <= now
        /\ timers' = timers \ {d}
    /\ st' = [st EXCEPT !.justScanned = FALSE]
    /\ UNCHANGED <<variant, now, rendered, effects, ls, ref, issued, ev, kept, keptPrev>>

\* Time passes once the page is at rest: the scheduled render and effects
\* have run and no timer is due.
Advance ==
    /\ now + Tick <= MaxTime
    /\ st = rendered
    /\ effects = {}
    /\ \A d \in timers : d > now
    /\ now' = now + Tick
    /\ UNCHANGED <<variant, st, rendered, effects, timers, ls, ref, issued, ev, kept, keptPrev>>

\* The page is closed or crashes and is opened again: the component state,
\* the refs and the timers are gone, localStorage stays.
Reload ==
    /\ st' = InitialState
    /\ rendered' = InitialState
    /\ effects' = MountEffects
    /\ timers' = {}
    /\ ref' = InitialRefs
    /\ ev' = [NoEvent EXCEPT !.op = "reload"]
    /\ UNCHANGED <<variant, now, ls, issued, kept, keptPrev>>

-----------------------------------------------------------------------------
(* Inputs *)

LockScans == {P_AnnD1}
OrgScans == {P_AnnD1, P_BobD1}
LogScans == {P_AnnD1, P_BobD1}
Names == {"Ann", "  "}
Pins == {"1234", "0000", "1234 "}

\* The texts scanned to exercise the handlers of the ledger pages
InputScans == {P_AnnD1, P_Blank, P_NoName, P_Plain}

\* The payloads scanned to exercise the device-id extraction
IdScans == {P_BlankId, P_Nested, P_Loose, P_NameOnly, P_IdD1}

\* The payloads scanned to exercise the decoders
CodecScans ==
    {P_AnnD1, P_Padded, P_Plain, P_Null, P_Num, P_Arr, P_NumName, P_NumId,
     P_FirstLast, P_Order, P_BlankName, P_NoName}

-----------------------------------------------------------------------------
(* Events of the lock/PIN page *)

\* What a handler's result does to the state, the storage and the ghosts.
\* At most MaxEntries records are admitted between two clears.
Admitted(added, op, arg) ==
    {[rec |-> a, via |-> IF op = "scan" THEN arg ELSE ""] : a \in added}

Admit(res, op, arg) ==
    /\ Len(res.st.entries) <= MaxEntries
    /\ Cardinality(kept \cup Admitted(res.added, op, arg)) <= MaxEntries
    /\ ls' = res.ls
    /\ ev' = Event(op, arg, res.out)
    /\ kept' = kept \cup Admitted(res.added, op, arg)
    /\ keptPrev' = kept

\* The camera starts in an effect of the first commit, so a decode callback
\* comes only after the page's mount effects have run.
CameraStarted == effects \cap {"mount", "load"} = {}

\* The scanner's onScan callback: if (value) handleDecode(value)
Scan_lock(raw) ==
    /\ variant = "lock"
    /\ CameraStarted
    /\ raw # ""
    /\ LET res == handleDecode_lock(rendered, st, ls, ref.deviceId, now, raw)
       IN  /\ Admit(res, "scan", raw)
           /\ st' = res.st
           /\ timers' = IF res.timer THEN timers \cup {now + JustScannedMs} ELSE timers
    /\ UNCHANGED <<variant, now, rendered, effects, ref, issued>>

\* A click on Add.  The button is disabled while the lock is engaged
\* (line 678); handleManualAdd checks the lock itself (line 519), and the
\* calls that reach it with the lock engaged are part of this action.
ManualAdd_lock(name) ==
    /\ variant = "lock"
    /\ effects = {}
    /\ LET res == handleManualAdd_lock(rendered, st, ls, ref.deviceId, now, name)
       IN  /\ Admit(res, "manual", name)
           /\ SyncRender(res.st)
    /\ UNCHANGED <<variant, now, timers, ref, issued>>

\* A click on Unlock, with `pin` typed in the PIN box.  The box and the
\* button are rendered only while the lock is engaged (line 580).
Unlock(pin) ==
    /\ variant = "lock"
    /\ effects = {}
    /\ ~rendered.organizerUnlocked
    /\ SyncRender(unlock(st, pin))
    /\ ev' = Event("unlock", pin, IF pin = ORGANIZER_PIN THEN "ok" ELSE "invalid-pin")
    /\ keptPrev' = kept
    /\ UNCHANGED <<variant, now, timers, ls, ref, issued, kept>>

\* A click on a mode radio button.  The scanner radio is disabled while the
\* lock is engaged (line 614); a radio's onChange fires when it gets checked.
SetMode(m) ==
    /\ variant = "lock"
    /\ effects = {}
    /\ m # rendered.mode
    /\ m = "scanner" => rendered.organizerUnlocked
    /\ SyncRender([st EXCEPT !.mode = m])
    /\ ev' = Event("mode", m, "ok")
    /\ keptPrev' = kept
    /\ UNCHANGED <<variant, now, timers, ls, ref, issued, kept>>

\* A click on Clear List, disabled while the lock is engaged (line 701)
ClearAll_lock ==
    /\ variant = "lock"
    /\ effects = {}
    /\ rendered.organizerUnlocked
    /\ LET res == clearAll_lock(st, ls)
       IN  /\ SyncRender(res.st)
           /\ ls' = res.ls
    /\ ev' = Event("clear", "", "cleared")
    /\ kept' = {}
    /\ keptPrev' = {}
    /\ UNCHANGED <<variant, now, timers, ref, issued>>

-----------------------------------------------------------------------------
(* Events of the organizer-ledger page *)

Scan_org(raw) ==
    /\ variant = "org"
    /\ CameraStarted
    /\ raw # ""
    /\ LET res == handleDecode_org(rendered, st, ls, ref.deviceId, now, raw)
       IN  /\ Admit(res, "scan", raw)
           /\ st' = res.st
           /\ timers' = IF res.timer THEN timers \cup {now + JustScannedMs} ELSE timers
    /\ UNCHANGED <<variant, now, rendered, effects, ref, issued>>

ManualAdd_org(name) ==
    /\ variant = "org"
    /\ effects = {}
    /\ LET res == handleManualAdd_org(rendered, st, ls, ref.deviceId, now, name)
       IN  /\ Admit(res, "manual", name)
           /\ SyncRender(res.st)
    /\ UNCHANGED <<variant, now, timers, ref, issued>>

ClearAll_org ==
    /\ variant = "org"
    /\ effects = {}
    /\ issued < MaxIds
    /\ LET res == clearAll_org(st, ls, UUIDs[issued + 1])
       IN  /\ SyncRender(res.st)
           /\ ls' = res.ls
           /\ ref' = [ref EXCEPT !.deviceId = res.deviceId]
    /\ issued' = issued + 1
    /\ ev' = Event("clear", "", "cleared")
    /\ kept' = {}
    /\ keptPrev' = {}
    /\ UNCHANGED <<variant, now, timers>>

-----------------------------------------------------------------------------
(* The student page, opened in the same browser: its mount effect calls its   *)
(* own copy of getOrCreateDeviceId on the same localStorage key.  The event  *)
(* records the id the call returned.                                         *)

StudentOpen ==
    /\ ls.deviceId = "" => issued < MaxIds
    /\ LET g == getOrCreateDeviceId(ls, UUIDs[issued + 1])
       IN  /\ ls' = g.store
           /\ issued' = IF g.created THEN issued + 1 ELSE issued
           /\ ev' = Event("student", "", g.id)
    /\ UNCHANGED <<variant, now, st, rendered, effects, timers, ref, kept, keptPrev>>

-----------------------------------------------------------------------------
(* Events of the scan-log page *)

\* The scanner's onScan callback: if (text) handleDecoded(text)
Scan_log(raw) ==
    /\ variant = "log"
    /\ CameraStarted
    /\ raw # ""
    /\ LET res == handleDecoded(rendered, st, ref, now, raw)
       IN  /\ Len(res.st.scannedItems) <= MaxEntries
           /\ Cardinality(kept \cup Admitted(res.added, "scan", raw)) <= MaxEntries
           /\ st' = res.st
           /\ ref' = res.ref
           /\ ev' = Event("scan", raw, res.out)
           /\ kept' = kept \cup Admitted(res.added, "scan", raw)
    /\ keptPrev' = kept
    /\ UNCHANGED <<variant, now, rendered, effects, timers, ls, issued>>

\* A click on the Remove button of a rendered row
Remove_log(deviceId) ==
    /\ variant = "log"
    /\ effects = {}
    /\ deviceId \in deviceIdSet(rendered)
    /\ SyncRender(removeItem(st, deviceId))
    /\ ev' = Event("remove", deviceId, "removed")
    /\ kept' = {k \in kept : k.rec.deviceId # deviceId}
    /\ keptPrev' = kept'
    /\ UNCHANGED <<variant, now, timers, ls, ref, issued>>

ClearAll_log ==
    /\ variant = "log"
    /\ effects = {}
    /\ SyncRender(clearAll_log(st))
    /\ ev' = Event("clear", "", "cleared")
    /\ kept' = {}
    /\ keptPrev' = {}
    /\ UNCHANGED <<variant, now, timers, ls, ref, issued>>

-----------------------------------------------------------------------------
(* Specifications *)

React ==
    \/ Render
    \/ FlushEffects
    \/ TimerFire
    \/ Advance
    \/ Reload

LockEvents ==
    \/ \E raw \in LockScans : Scan_lock(raw)
    \/ \E name \in Names : ManualAdd_lock(name)
    \/ \E pin \in Pins : Unlock(pin)
    \/ \E m \in {"scanner", "self"} : SetMode(m)
    \/ ClearAll_lock

OrgEvents ==
    \/ \E raw \in OrgScans : Scan_org(raw)
    \/ \E name \in Names : ManualAdd_org(name)
    \/ ClearAll_org

LogEvents ==
    \/ \E raw \in LogScans : Scan_log(raw)
    \/ \E d \in {"d1"} : Remove_log(d)
    \/ ClearAll_log

Next == React \/ LockEvents \/ OrgEvents \/ LogEvents

Spec == Init /\ [][Next]_vars

\* One build at a time
InitLock == Init /\ variant = "lock"

NextLock == React \/ LockEvents

SpecLock == InitLock /\ [][NextLock]_vars

InitOrg == Init /\ variant = "org"

NextOrg == React \/ OrgEvents

SpecOrg == InitOrg /\ [][NextOrg]_vars

InitLog == Init /\ variant = "log"

NextLog == Render \/ FlushEffects \/ Advance \/ Reload \/ LogEvents

SpecLog == InitLog /\ [][NextLog]_vars

\* The organizer-ledger page with names typed into the manual-entry box
RichNames == {"Jose", "JOSE", "JOSE'", " jose ", "Ann"}

NextNames ==
    \/ FlushEffects
    \/ \E name \in RichNames : ManualAdd_org(name)
    \/ ClearAll_org

SpecNames == InitOrg /\ [][NextNames]_vars

\* The two pages that decode a payload, each scanning the payloads of
\* CodecScans onto its empty list in the first instant after it is opened
InitCodec == Init /\ variant \in {"org", "log"}

NextCodec ==
    \/ Render
    \/ FlushEffects
    \/ \E raw \in CodecScans : st.entries = <<>> /\ Scan_org(raw)
    \/ \E raw \in CodecScans : st.scannedItems = <<>> /\ Scan_log(raw)
    \/ \E raw \in IdScans : st.scannedItems = <<>> /\ Scan_log(raw)
    \/ ClearAll_org
    \/ ClearAll_log

SpecCodec == InitCodec /\ [][NextCodec]_vars

\* The two ledger pages, handling the texts of InputScans and the typed names
InitLedger == Init /\ variant \in {"lock", "org"}

NextInputs ==
    \/ Render
    \/ FlushEffects
    \/ TimerFire
    \/ Advance
    \/ \E pin \in Pins : Unlock(pin)
    \/ \E m \in {"scanner", "self"} : SetMode(m)
    \/ \E raw \in InputScans : Scan_lock(raw)
    \/ \E name \in Names : ManualAdd_lock(name)
    \/ \E raw \in InputScans : Scan_org(raw)
    \/ \E name \in Names : ManualAdd_org(name)

SpecInputs == InitLedger /\ [][NextInputs]_vars

\* The device identity shared by the pages of one browser: the ledger pages
\* are opened, reloaded and cleared, and the student page is opened
NextIdentity ==
    \/ Render
    \/ FlushEffects
    \/ Reload
    \/ StudentOpen
    \/ \E pin \in Pins : Unlock(pin)
    \/ \E name \in Names : ManualAdd_lock(name)
    \/ \E raw \in OrgScans : Scan_org(raw)
    \/ \E name \in Names : ManualAdd_org(name)
    \/ ClearAll_org

SpecIdentity == InitLedger /\ [][NextIdentity]_vars

\* The two ledger pages over time.  A decode is delivered while another
\* tick of the clock remains, so that the timer it starts comes due within
\* the time the model covers.
Horizon == now + Tick <= MaxTime

NextLive ==
    \/ Render
    \/ FlushEffects
    \/ TimerFire
    \/ Advance
    \/ \E pin \in Pins : Unlock(pin)
    \/ \E m \in {"scanner", "self"} : SetMode(m)
    \/ \E raw \in LockScans : Horizon /\ Scan_lock(raw)
    \/ \E raw \in OrgScans : Horizon /\ Scan_org(raw)

\* React runs a scheduled render and its effects, the browser runs a timer
\* that is due, and time passes however often the user clicks: the page is
\* at rest again after every click.
Fairness ==
    /\ WF_vars(Render)
    /\ WF_vars(FlushEffects)
    /\ WF_vars(TimerFire)
    /\ SF_vars(Advance)

SpecLive == InitLedger /\ [][NextLive]_vars /\ Fairness

-----------------------------------------------------------------------------
(* Properties.  A property of a handler is stated about the steps of its   *)
(* action: `st`, `ls` are the state and the storage the handler finds,     *)
(* `st'`, `ls'` those it leaves, ev'.out the path it took.                  *)

\* Every field of the state but `fields` is left as it was
SameExcept(a, b, fields) == \A f \in (DOMAIN a) \ fields : a[f] = b[f]

\* The ledger is left as it was, in memory and in storage
LedgerUnchanged == st'.entries = st.entries /\ ls'.list = ls.list

\* The name a ledger-page event submits
SubmittedName(op, arg) ==
    IF variant = "org" /\ op = "scan" THEN FieldText(parsePayload(arg), "name").s
    ELSE trim(arg)

\* The ledger holds a record the page takes for `name`
Holds(entries, name) == \E i \in 1..Len(entries) : localeCompare(entries[i].name, name)

\* The step is a decode callback, or a click on Add, of one of the pages
ScanStep_lock == ev'.op = "scan" /\ \E raw \in LockScans : Scan_lock(raw)

ManualStep_lock == ev'.op = "manual" /\ \E name \in Names : ManualAdd_lock(name)

ScanStep_org == ev'.op = "scan" /\ \E raw \in OrgScans : Scan_org(raw)

ManualStep_org == ev'.op = "manual" /\ \E name \in Names : ManualAdd_org(name)

ScanStep_log == ev'.op = "scan" /\ \E raw \in LogScans : Scan_log(raw)

C2_SingleAttempt ==
    [][ ScanStep_lock /\ rendered.mode = "self" /\ ev'.out # "debounced" =>
          IF st.selfAttempted
          THEN ev'.out = "already-checked-in"
          ELSE ev'.out = "self-confirmed" /\ st'.selfAttempted /\ ls'.self = "true" ]_vars

\* C3, as the code has it: a scan handled while the mode is self leaves the
\* ledger as it was in memory and in storage; of the state only the attempt
\* flag, the status messages and the debounce flag may change.
C3_SelfNeverWritesRoster ==
    [][ ScanStep_lock /\ (rendered.mode = "self" \/ st.mode = "self") =>
          /\ LedgerUnchanged
          /\ ls'.deviceId = ls.deviceId
          /\ SameExcept(st, st', {"selfAttempted", "scanError", "infoMessage", "justScanned"})
      ]_vars

\* C3's case: a self check-in was confirmed on a page whose ledger holds a record
C3_Witness ==
    /\ ev.op = "scan" /\ ev.out = "self-confirmed"
    /\ st.mode = "self" /\ st.selfAttempted /\ ls.self = "true"
    /\ Len(ls.list) = 1

\* C3 as first stated: of the state only the attempt flag and the status
\* messages may change.
C3_OnlyFlagAndMessages ==
    [][ ScanStep_lock /\ (rendered.mode = "self" \/ st.mode = "self") =>
          /\ LedgerUnchanged
          /\ SameExcept(st, st', {"selfAttempted", "scanError", "infoMessage"}) ]_vars

\* A submission in organizer mode with the lock open: a scan that comes
\* while the debounce flag is down, or a manual entry, of a name that is
\* not blank
SubmitStep ==
    /\ \/ variant = "org" /\ (ScanStep_org \/ ManualStep_org)
       \/ /\ variant = "lock" /\ (ScanStep_lock \/ ManualStep_lock)
          /\ rendered.mode = "scanner" /\ rendered.organizerUnlocked
    /\ ev'.op = "scan" => ~st.justScanned /\ ev'.out # "debounced"
    /\ SubmittedName(ev'.op, ev'.arg) # ""

\* C4: a submission of a name the ledger does not hold appends exactly one
\* record, and a submission of a name the ledger holds is rejected as a
\* duplicate and leaves the ledger unchanged.
C4_Idempotent ==
    [][ SubmitStep =>
          IF Holds(st.entries, SubmittedName(ev'.op, ev'.arg))
          THEN ev'.out = "duplicate" /\ LedgerUnchanged
          ELSE /\ ev'.out = "added"
               /\ Len(st'.entries) = Len(st.entries) + 1
               /\ st'.entries[1].name = SubmittedName(ev'.op, ev'.arg)
               /\ Tail(st'.entries) = st.entries
               /\ ls'.list = st'.entries ]_vars

\* Two names equal letter by letter once letter case is ignored
EqualIgnoringCase(a, b) ==
    /\ Len(a) = Len(b)
    /\ \A i \in 1..Len(a) : LowerChar(SubSeq(a, i, i)) = LowerChar(SubSeq(b, i, i))

C6_EndToEnd ==
    [][ /\ ( /\ Scan_lock(P_AnnD1)
             /\ st = rendered /\ st.organizerUnlocked /\ st.mode = "scanner"
             /\ ~st.justScanned /\ st.entries = <<>> )
           => /\ Len(st'.entries) = 1
              /\ st'.entries[1].name = "Ann" /\ st'.entries[1].deviceId = "d1"
              /\ ls'.list = st'.entries
        /\ ( /\ ManualAdd_lock("Ann")
             /\ ev.op = "scan" /\ ev.arg = P_AnnD1 /\ ev.out = "added"
             /\ st = rendered /\ Len(st.entries) = 1 )
           => /\ ev'.out = "duplicate"
              /\ LedgerUnchanged
              /\ sortedEntries(st'.entries) = st.entries ]_vars

\* The device id a scanned payload carries
PayloadDeviceId(raw) == FieldText(parsePayload(raw), "deviceId").s

\* The device ids carried by the scans admitted since the list was cleared
ScannedDevices == {PayloadDeviceId(k.via) : k \in {x \in kept : x.via # ""}} \ {""}

\* C7: a scan that comes while the debounce flag is down, whose payload
\* carries the device id of a scan admitted since the list was cleared and
\* a name the ledger does not hold, is rejected with "This device has
\* already checked in" and adds no record.
C7_OnePerDevice ==
    [][ \A raw \in OrgScans :
          ( /\ Scan_org(raw)
            /\ st = rendered /\ ~st.justScanned
            /\ PayloadDeviceId(raw) \in ScannedDevices
            /\ ~Holds(st.entries, SubmittedName("scan", raw)) )
          => ev'.out = "device-duplicate" /\ st'.scanError = DeviceDupMsg /\ LedgerUnchanged
      ]_vars

\* A decode is discarded silently: nothing but the record of the event moves
Discarded ==
    /\ ev'.out = "debounced"
    /\ UNCHANGED <<st, rendered, effects, timers, ls, ref, issued, kept>>

\* The debounce of the ledger pages
FlagDebounce ==
    IF rendered.justScanned THEN Discarded
    ELSE ev'.out # "debounced" /\ st'.justScanned /\ (now + JustScannedMs) \in timers'

\* C8, as the code has it.  Ledger pages: a decode that reaches a handler
\* whose render has the justScanned flag set is discarded silently with all
\* state unchanged, whatever its text; any other decode is reconciled, sets
\* the flag and starts the timer that clears it 1200 ms later.  Scan-log
\* page: a decode is discarded silently with all state unchanged iff its
\* text is that of the last reconciled decode and it comes less than 1500 ms
\* after it; any other decode is reconciled and becomes the last one.
C8_Debounce ==
    [][ /\ ScanStep_lock \/ ScanStep_org => FlagDebounce
        /\ TimerFire => ~st'.justScanned /\ \E d \in timers : d <= now /\ timers' = timers \ {d}
        /\ \A raw \in LogScans :
              Scan_log(raw) =>
                IF ref.lastRaw = raw /\ now - ref.lastTime < DebounceMs
                THEN Discarded
                ELSE ev'.out # "debounced" /\ ref'.lastRaw = raw /\ ref'.lastTime = now
      ]_vars

\* C8's case: the scan-log page discarded a decode that came a whole tick
\* after the decode of the same text it had reconciled
C8_Witness ==
    /\ variant = "log"
    /\ ev.op = "scan" /\ ev.out = "debounced"
    /\ ev.arg = ref.lastRaw /\ ev.t = ref.lastTime + Tick

\* C8 as first stated, for two decodes in a row each handled by an
\* up-to-date render: on every page, when the first was reconciled and the
\* second carries the same text and comes less than 1500 ms after it, the
\* second is discarded silently with all state unchanged.
C8_SameWindowEverywhere ==
    [][ ( /\ ScanStep_lock \/ ScanStep_org \/ ScanStep_log
          /\ st = rendered
          /\ ev.op = "scan" /\ ~ev.stale /\ ev.out # "debounced"
          /\ ev'.arg = ev.arg /\ now - ev.t < DebounceMs )
        => Discarded ]_vars

\* The list of the page
List(s) == IF variant = "log" THEN s.scannedItems ELSE s.entries

\* No two records of the list have the same key: the name as the ledger
\* pages compare it, the device id on the scan-log page
DistinctKeys(list) ==
    \A i, j \in 1..Len(list) :
        i < j => IF variant = "log" THEN list[i].deviceId # list[j].deviceId
                 ELSE ~localeCompare(list[i].name, list[j].name)

\* C9: a decode or a manual entry loses no record of the list and leaves no
\* two records with the same key, and of two decodes of the same text
\* delivered one right after the other at most one is admitted.
C9_Serialized ==
    [][ ScanStep_lock \/ ManualStep_lock \/ ScanStep_org \/ ManualStep_org \/ ScanStep_log =>
          /\ Range(List(st)) \subseteq Range(List(st'))
          /\ DistinctKeys(List(st)) => DistinctKeys(List(st'))
          /\ ( /\ ev.op = "scan" /\ ev'.op = "scan" /\ ev'.arg = ev.arg /\ ev.t = now
               /\ ev.out \in {"added", "saved"} )
             => ev'.out \notin {"added", "saved"} ]_vars

\* The records of the persisted snapshot
Persisted == IF variant = "log" THEN Range(ls.scans) ELSE Range(ls.list)

\* The records admitted before the most recent event
Earlier == {k.rec : k \in keptPrev}

\* C10, for the steps that run the page's effects, those of page load among
\* them: when the persisted snapshot holds every record admitted before the
\* most recent event, it still holds them after the effects have run.
C10_CrashSafe ==
    [][ FlushEffects /\ Earlier \subseteq Persisted => Earlier \subseteq Persisted' ]_vars

\* C11: in every state of the lock/PIN page, the organizer lock engaged
\* implies that the mode is self check-in.
C11_ModeRestricted == ~st.organizerUnlocked => st.mode = "self"

\* C12: once the organizer lock is open it stays open after every step that
\* is not a reload of the page (scan, manual entry, mode switch, clear,
\* render, effects, timer), and a reload engages it again.
C12_LockMonotone ==
    [][ /\ st.organizerUnlocked /\ ~Reload => st'.organizerUnlocked
        /\ Reload => ~st'.organizerUnlocked ]_vars

\* C12's case: with the lock open and a record on the list, the mode was
\* switched back to self and a self check-in was confirmed
C12_Witness ==
    /\ st.organizerUnlocked
    /\ st.entries # <<>>
    /\ st.mode = "self"
    /\ ev.op = "scan" /\ ev.out = "self-confirmed"

\* C13: a click on Unlock opens the lock iff the PIN typed is exactly the
\* configured PIN; any other input leaves the lock engaged and shows
\* "Invalid PIN"; either way the ledger (memory and storage), the mode and
\* the attempt flag (memory and storage) are as they were.
C13_UnlockByPin ==
    [][ ev'.op = "unlock" =>
          \A pin \in Pins :
            Unlock(pin) =>
              /\ st'.organizerUnlocked <=> pin = ORGANIZER_PIN
              /\ pin # ORGANIZER_PIN =>
                    ~st'.organizerUnlocked /\ st'.unlockError = InvalidPinMsg
              /\ LedgerUnchanged
              /\ st'.mode = st.mode
              /\ st'.selfAttempted = st.selfAttempted /\ ls'.self = ls.self ]_vars

\* C13's case: the configured PIN followed by a blank was refused on a page
\* that holds a record and a set attempt flag
C13_Witness ==
    /\ ev.op = "unlock" /\ ev.arg = "1234 " /\ ev.out = "invalid-pin"
    /\ ~st.organizerUnlocked /\ st.unlockError = InvalidPinMsg
    /\ st.entries # <<>> /\ st.selfAttempted

\* C14: the stored attempt flag, once "true", is "true" after every step;
\* the flag in memory is set only when the stored one is, stays set after
\* every step but a reload, and the mount effect that follows a reload sets
\* it again from the stored flag.
C14_FlagMonotone ==
    [][ /\ ls.self = "true" => ls'.self = "true"
        /\ st'.selfAttempted => ls'.self = "true"
        /\ st.selfAttempted /\ ~Reload => st'.selfAttempted
        /\ FlushEffects /\ "mount" \in effects =>
              (st'.selfAttempted <=> ls.self = "true") ]_vars

\* C14's case: the page was reloaded after a self check-in and its mount
\* effect has set the flag again
C14_Witness ==
    /\ variant = "lock"
    /\ ev.op = "reload" /\ effects = {} /\ st = rendered
    /\ st.selfAttempted /\ ls.self = "true"

\* C15, as the code has it: clearAll empties the ledger in memory and in
\* storage and leaves the self-attempt flag as it was; the lock/PIN page
\* keeps the device id, the organizer-ledger page drops the stored device id
\* and takes a fresh one, in storage and in its ref.
C15_ClearFrame ==
    [][ ev'.op = "clear" =>
          /\ ClearAll_lock =>
                /\ st'.entries = <<>> /\ ls'.list = <<>>
                /\ ls'.deviceId = ls.deviceId /\ ref'.deviceId = ref.deviceId
                /\ ls'.self = ls.self /\ st'.selfAttempted = st.selfAttempted
          /\ ClearAll_org =>
                /\ st'.entries = <<>> /\ ls'.list = <<>>
                /\ ls'.deviceId = UUIDs[issued + 1] /\ ls'.deviceId # ls.deviceId
                /\ ref'.deviceId = ls'.deviceId
                /\ ls'.self = ls.self /\ st'.selfAttempted = st.selfAttempted ]_vars

\* C15's case: the organizer-ledger page cleared its list and holds the
\* second device id of the browser
C15_Witness ==
    /\ variant = "org"
    /\ ev.op = "clear"
    /\ st.entries = <<>> /\ ls.list = <<>>
    /\ ls.deviceId = UUIDs[MaxIds] /\ ref.deviceId = UUIDs[MaxIds]

\* C15 as first stated: clearAll of either ledger page empties the ledger
\* and leaves the device id and the self-attempt flag as they were.
C15_IdentityKept ==
    [][ ev'.op = "clear" /\ (ClearAll_lock \/ ClearAll_org) =>
          /\ st'.entries = <<>> /\ ls'.list = <<>>
          /\ ls'.deviceId = ls.deviceId /\ ref'.deviceId = ref.deviceId
          /\ ls'.self = ls.self /\ st'.selfAttempted = st.selfAttempted ]_vars

\* C16: a record enters the list only by a decode or a manual entry (or by
\* the page loading its stored list); a record leaves the list only by a
\* clear or a removal (or with the page, on reload); and a clear leaves the
\* self-attempt flag unset, in memory and in storage.
C16_AppendOnlyTotalReset ==
    [][ /\ Range(List(st')) \ Range(List(st)) # {} =>
              ev'.op \in {"scan", "manual"} \/ FlushEffects
        /\ Range(List(st)) \ Range(List(st')) # {} =>
              Reload \/ (ev' # ev /\ ev'.op \in {"clear", "remove"})
        /\ ev'.op = "clear" /\ (ClearAll_lock \/ ClearAll_org \/ ClearAll_log) =>
              ~st'.selfAttempted /\ ls'.self # "true" ]_vars

\* The paths a decode handler takes when it returns normally
NormalOutcomes ==
    {"debounced", "no-name", "device-duplicate", "added", "duplicate", "invalid",
     "no-device-id", "saved"}

\* C17: whatever the payload, the decode handler of the organizer-ledger
\* page and of the scan-log page raises no exception and returns by one of
\* its normal paths.
C17_DecodeNeverFails ==
    [][ ev'.op = "scan" =>
          \A raw \in CodecScans \cap {ev'.arg} :
            Scan_org(raw) \/ Scan_log(raw) => ev'.out \in NormalOutcomes ]_vars

\* The name keys of C18, in order
OrderedNameKeys ==
    <<"name", "fullName", "studentName", "student_name", "ownerName", "owner",
      "userName", "username">>

\* The name C18 gives a parsed object
NameByOrderedKeys(parsed) ==
    LET hits == {i \in 1..Len(OrderedNameKeys) :
                    NonEmptyString(Get(parsed, OrderedNameKeys[i]))}
        first == Get(parsed, "firstName")
        last == Get(parsed, "lastName")
    IN  IF hits # {} THEN trim(Get(parsed, OrderedNameKeys[Min(hits)]).s)
        ELSE IF first.t = "string" /\ last.t = "string"
                /\ trim(first.s \o " " \o last.s) # ""
        THEN trim(first.s \o " " \o last.s)
        ELSE null

\* C18: the name the scan-log page saves for a JSON-object payload is the
\* trimmed value of the first of the ordered name keys that holds a
\* non-empty string, else firstName and lastName joined by one space, else
\* absent.
C18_NameExtraction ==
    [][ ev'.op = "scan" /\ ev'.out = "saved" =>
          \A raw \in CodecScans \cap {ev'.arg} :
            Scan_log(raw) /\ JSONparse(trim(raw)).t = "object" =>
              st'.scannedItems[1].name = NameByOrderedKeys(JSONparse(trim(raw))) ]_vars

\* The payload is a JSON object whose name and deviceId are strings
HasStringFields(raw) ==
    LET parsed == JSONparse(trim(raw))
    IN  /\ parsed.t = "object"
        /\ Get(parsed, "name").t = "string"
        /\ Get(parsed, "deviceId").t = "string"

\* The payload is not JSON
NotJson(raw) == JSONparse(trim(raw)).t = "error"

\* What C19 has in common in both statements: the JSON object with string
\* name and deviceId decodes to those values trimmed on both pages, and
\* text that is not JSON decodes on the scan-log page to the trimmed text as
\* device id with no name.
BasicCases(raw) ==
    /\ Scan_org(raw) /\ ev'.out # "debounced" /\ HasStringFields(raw) =>
          /\ FieldText(parsePayload(raw), "name").s = trim(Get(JSONparse(raw), "name").s)
          /\ FieldText(parsePayload(raw), "deviceId").s
                = trim(Get(JSONparse(raw), "deviceId").s)
          /\ ev'.out = "added" =>
                st'.entries[1].name = trim(Get(JSONparse(raw), "name").s)
    /\ Scan_log(raw) /\ ev'.out = "saved" /\ HasStringFields(raw) =>
          /\ st'.scannedItems[1].name = trim(Get(JSONparse(trim(raw)), "name").s)
          /\ st'.scannedItems[1].deviceId = trim(Get(JSONparse(trim(raw)), "deviceId").s)
    /\ Scan_log(raw) /\ ev'.out # "debounced" /\ NotJson(raw) =>
          /\ parseDeviceIdFromQrPayload(raw).deviceId = trim(raw)
          /\ parseDeviceIdFromQrPayload(raw).name = null
          /\ ev'.out = "saved" =>
                /\ st'.scannedItems[1].deviceId = trim(raw)
                /\ st'.scannedItems[1].name = null

\* C19, as the code has it: the basic cases, and text that is not JSON
\* decodes on the organizer-ledger page to the trimmed text as name with no
\* device id, and is admitted under that name.
C19_BasicCases ==
    [][ ev'.op = "scan" =>
          \A raw \in CodecScans \cap {ev'.arg} :
            /\ BasicCases(raw)
            /\ Scan_org(raw) /\ ev'.out # "debounced" /\ NotJson(raw) =>
                  /\ FieldText(parsePayload(raw), "name").s = trim(raw)
                  /\ FieldText(parsePayload(raw), "deviceId").s = ""
                  /\ ev'.out = "added" => st'.entries[1].name = trim(raw) ]_vars

\* C19's case: the organizer-ledger page admitted the text " Plain Name "
\* under the name it decoded
C19_Witness ==
    /\ variant = "org"
    /\ ev.op = "scan" /\ ev.arg = P_Plain /\ ev.out = "added"
    /\ st.entries[1].name = "Plain Name"

\* C19 as first stated: the basic cases, and text that is not JSON decodes
\* on the organizer-ledger page to the whole text as name with no device id.
C19_WholeString ==
    [][ ev'.op = "scan" =>
          \A raw \in CodecScans \cap {ev'.arg} :
            /\ BasicCases(raw)
            /\ Scan_org(raw) /\ ev'.out # "debounced" /\ NotJson(raw) =>
                  /\ FieldText(parsePayload(raw), "name").s = raw
                  /\ FieldText(parsePayload(raw), "deviceId").s = "" ]_vars

\* C20: a decode of the scan-log page that passes the debounce and carries a
\* device id is refused as a duplicate iff a saved item has that device id,
\* whatever its name, and leaves no two saved items with the same device id.
C20_DuplicateIffSaved ==
    [][ ev'.op = "scan" /\ ev'.out \notin {"debounced", "no-device-id"} =>
          \A raw \in LogScans :
            Scan_log(raw) =>
              /\ ev'.out = "duplicate" <=>
                    \E i \in 1..Len(st.scannedItems) :
                        st.scannedItems[i].deviceId = parseDeviceIdFromQrPayload(raw).deviceId
              /\ DistinctKeys(st'.scannedItems) ]_vars

-----------------------------------------------------------------------------
(* Invalid names, manual entry, the presented list *)

\* The step is a decode callback, or a click on Add, of a ledger page with
\* one of the inputs of SpecInputs
InputStep ==
    \/ ev'.op = "scan" /\ \E raw \in InputScans \cap {ev'.arg} : Scan_lock(raw) \/ Scan_org(raw)
    \/ ev'.op = "manual" /\ \E name \in Names \cap {ev'.arg} : ManualAdd_lock(name) \/ ManualAdd_org(name)

\* The event gets as far as the name check: a click on Add always does, a
\* decode does unless the debounce flag discards it or, on the lock/PIN
\* page, the self branch or the lock takes it first
ReachesNameCheck ==
    \/ ev'.op = "manual"
    \/ /\ ev'.op = "scan" /\ ~rendered.justScanned
       /\ variant = "lock" => rendered.mode = "scanner" /\ rendered.organizerUnlocked

\* The state a handler leaves when addEntry finds the name in the list
AfterDuplicate ==
    IF ev'.op = "manual" THEN st
    ELSE [st EXCEPT !.justScanned = TRUE, !.scanError = "", !.infoMessage = ""]

C22_ManualBypass ==
    [][ ManualStep_lock /\ trim(ev'.arg) # "" =>
          /\ st'.selfAttempted = st.selfAttempted /\ ls'.self = ls.self
          /\ st'.mode = st.mode
          /\ ev'.out # "self-confirmed" /\ ev'.out # "already-checked-in"
          /\ IF st.organizerUnlocked
             THEN ~Holds(st.entries, trim(ev'.arg)) =>
                    /\ ev'.out = "added"
                    /\ st'.entries = <<[name |-> trim(ev'.arg), deviceId |-> ref.deviceId,
                                        timestamp |-> now]>> \o rendered.entries
                    /\ ls'.list = st'.entries
             ELSE ev'.out = "locked" /\ LedgerUnchanged ]_vars

\* C22's case: a manual entry was admitted in self mode, on a device whose
\* attempt flag is set
C22_Witness ==
    /\ variant = "lock"
    /\ ev.op = "manual" /\ ev.out = "added"
    /\ st.mode = "self" /\ st.selfAttempted /\ st.organizerUnlocked
    /\ st.entries # <<>> /\ st.entries[1].name = trim(ev.arg)

\* The one-to-one maps of the places of a list onto themselves
Reorderings(n) ==
    {p \in [1..n -> 1..n] : \A i, j \in 1..n : p[i] = p[j] => i = j}

\* `shown` holds the records of `list`, latest first, and those of one
\* timestamp in the order `list` has them, which is latest insert first
ListedDescending(list, shown) ==
    /\ Len(shown) = Len(list)
    /\ \E p \in Reorderings(Len(list)) :
          /\ \A i \in 1..Len(list) : shown[i] = list[p[i]]
          /\ \A i, j \in 1..Len(list) :
                i < j => \/ shown[i].timestamp > shown[j].timestamp
                         \/ shown[i].timestamp = shown[j].timestamp /\ p[i] < p[j]

\* C23: the list a ledger page shows is a permutation of its entries, sorted
\* by timestamp with the latest first, records of one timestamp with the
\* latest insert first; the same holds for the stored list, and the entries
\* are the argument of the sort, never its result.
C23_ListDescending ==
    variant \in {"lock", "org"} =>
        /\ ListedDescending(st.entries, sortedEntries(st.entries))
        /\ ListedDescending(rendered.entries, sortedEntries(rendered.entries))
        /\ ListedDescending(ls.list, sortedEntries(ls.list))

\* C23's case: the list holds two records of one timestamp, and shows the
\* one inserted last first
C23_Witness ==
    /\ variant \in {"lock", "org"}
    /\ Len(st.entries) = MaxEntries
    /\ st.entries[1].timestamp = st.entries[MaxEntries].timestamp
    /\ ev.out = "added"
    /\ sortedEntries(st.entries)[1].name = SubmittedName(ev.op, ev.arg)

-----------------------------------------------------------------------------
(* The device identity, name uniqueness *)

\* C24: clearAll of the organizer-ledger page leaves the ledger empty in
\* memory and in storage and replaces the stored device id by a freshly
\* generated one, different from the old one, which the page's ref takes
\* too; every record the page admits carries the id that is stored at that
\* moment, so the records admitted after a clear carry the new one.
C24_IdentityReset ==
    [][ /\ ev'.op = "clear" /\ ClearAll_org =>
              /\ st'.entries = <<>> /\ rendered'.entries = <<>> /\ ls'.list = <<>>
              /\ ls'.deviceId \notin {"", ls.deviceId}
              /\ \A i \in 1..issued : ls'.deviceId # UUIDs[i]
              /\ ref'.deviceId = ls'.deviceId
        /\ ev'.out = "added" /\ (ScanStep_org \/ ManualStep_org) =>
              /\ st'.entries[1].deviceId = ls.deviceId
              /\ ls'.list[1].deviceId = ls'.deviceId ]_vars

\* C24's case: after a clear, the organizer-ledger page admitted a record
\* under the second device id of the browser
C24_Witness ==
    /\ variant = "org"
    /\ ev.out = "added"
    /\ issued = MaxIds
    /\ Len(st.entries) = 1 /\ st.entries[1].deviceId = UUIDs[MaxIds]
    /\ ls.list = st.entries /\ ls.deviceId = UUIDs[MaxIds]

\* What a call of getOrCreateDeviceId that returned `id` did to the storage
GetOrCreate(id) ==
    IF ls.deviceId = ""
    THEN id # "" /\ ls'.deviceId = id /\ issued' = issued + 1
    ELSE id = ls.deviceId /\ ls' = ls /\ issued' = issued

\* C25: a call of getOrCreateDeviceId, by the mount effect of a ledger page
\* or by the student page opened in the same browser, generates an id that
\* is not empty and stores it when none is stored, and otherwise returns the
\* stored id, generates nothing and writes nothing.
C25_Idempotent ==
    [][ /\ FlushEffects /\ "mount" \in effects => GetOrCreate(ref'.deviceId)
        /\ ev'.op = "student" /\ StudentOpen => GetOrCreate(ev'.out) ]_vars

\* C25's case: after a clear of the organizer-ledger page replaced the id,
\* the student page was opened and got the id the ledger page holds
C25_Witness ==
    /\ ev.op = "student"
    /\ issued = MaxIds
    /\ ev.out = UUIDs[MaxIds] /\ ls.deviceId = ev.out /\ ref.deviceId = ev.out

\* C26: no two records of a ledger page's list, in memory or in storage,
\* have names that the page's comparison takes for equal.
C26_UniqueNames ==
    variant \in {"lock", "org"} => DistinctKeys(st.entries) /\ DistinctKeys(ls.list)

\* C26's case: the list is full and the page has just refused a name it holds
C26_Witness ==
    /\ variant \in {"lock", "org"}
    /\ Len(st.entries) = MaxEntries
    /\ ev.out = "duplicate"
    /\ Holds(st.entries, SubmittedName(ev.op, ev.arg))

-----------------------------------------------------------------------------
(* What the debounce looks at, the admitted record *)

\* C27, as the code has it.  Scan-log page: a decode is discarded by the
\* debounce only if its text is that of the last reconciled decode and it
\* comes less than 1500 ms after it; a decode of another text is reconciled
\* whenever it comes, and becomes the last one.  Ledger pages: the debounce
\* does not look at the text; a decode is discarded exactly when the
\* handler's render has the justScanned flag set, so a decode of another
\* text that comes while the flag is up is discarded too.
C27_DebounceKey ==
    [][ ev'.op = "scan" =>
          /\ \A raw \in LogScans \cap {ev'.arg} :
                Scan_log(raw) =>
                  /\ ev'.out = "debounced" =>
                        raw = ref.lastRaw /\ now - ref.lastTime < DebounceMs /\ ref' = ref
                  /\ raw # ref.lastRaw =>
                        /\ ev'.out \in {"saved", "duplicate", "no-device-id"}
                        /\ ref'.lastRaw = raw /\ ref'.lastTime = now
          /\ ScanStep_lock \/ ScanStep_org =>
                /\ ev'.out = "debounced" <=> rendered.justScanned
                /\ rendered.justScanned => st' = st /\ ls' = ls ]_vars

\* C27's case: the organizer-ledger page admitted Ann's code and, at the
\* same instant, its debounce discarded Bob's
C27_Witness ==
    /\ variant = "org"
    /\ ev.op = "scan" /\ ev.arg = P_BobD1 /\ ev.out = "debounced"
    /\ Len(st.entries) = 1 /\ st.entries[1].name = "Ann" /\ st.entries[1].timestamp = ev.t
    /\ st.justScanned

\* C27 as first stated: on every page, a decode whose text differs from
\* that of the decode handled before it is not discarded by the debounce.
C27_KeyedOnPayload ==
    [][ ( /\ ScanStep_lock \/ ScanStep_org \/ ScanStep_log
          /\ ev.op = "scan" /\ ev'.arg # ev.arg )
        => ev'.out # "debounced" ]_vars

\* C28: a step on which addEntry admits puts exactly one record in front of
\* the entries of the handler's render and stores that list; the record's
\* name is the submitted name trimmed and is not empty, its deviceId is the
\* one the page's ref holds, which is the stored id of the acting device and
\* not the one the payload carries, and its timestamp is the time of the
\* step.
C28_RecordShape ==
    [][ InputStep /\ ev'.out = "added" =>
          LET new == st'.entries[1]
          IN  /\ st'.entries = <<new>> \o rendered.entries
              /\ ls'.list = st'.entries
              /\ kept' \ kept \subseteq {[rec |-> new, via |-> IF ev'.op = "scan" THEN ev'.arg ELSE ""]}
              /\ new.name = SubmittedName(ev'.op, ev'.arg)
              /\ new.name # "" /\ new.name = trim(new.name)
              /\ new.deviceId = ref.deviceId /\ new.deviceId = ls.deviceId
              /\ new.deviceId # ""
              /\ ev'.op = "scan" => new.deviceId # PayloadDeviceId(ev'.arg)
              /\ new.timestamp = now ]_vars

\* C28's case: a second record was admitted a tick after the first, from a
\* padded text decoded by the organizer-ledger page
C28_Witness ==
    /\ variant = "org"
    /\ ev.op = "scan" /\ ev.arg = P_Plain /\ ev.out = "added"
    /\ Len(st.entries) = MaxEntries
    /\ st.entries[1] = [name |-> "Plain Name", deviceId |-> UUIDs[1], timestamp |-> ev.t]
    /\ st.entries[MaxEntries].timestamp < ev.t

-----------------------------------------------------------------------------
(* The device id of a decoded object, reload *)

\* The id an object-valued field carries: String(value.id).trim() when
\* value.id is truthy, "" otherwise
NestedId(v) ==
    IF v.t = "object" /\ Truthy(Get(v, "id")) THEN trim(StringOf(Get(v, "id"))) ELSE ""

\* The field decides the device id: it holds a string (one that is not
\* blank, unless `blankCounts`), or an object that carries an id
DecidesId(v, blankCounts) ==
    \/ v.t = "string" /\ (blankCounts \/ trim(v.s) # "")
    \/ NestedId(v) # ""

\* The device id of the object `parsed`, decoded from `text`, by the rule of
\* C29; a blank string decides only when `blankCounts`
IdByRule(parsed, text, blankCounts) ==
    LET first == {i \in 1..Len(candidateKeys) :
                    DecidesId(Get(parsed, candidateKeys[i]), blankCounts)}
        other == {i \in 1..Len(parsed.e) :
                    /\ \E k \in 1..(Len(parsed.e[i][1]) - 1) :
                          SubSeq(parsed.e[i][1], k, k + 1) \in {"id", "Id", "iD", "ID"}
                    /\ DecidesId(parsed.e[i][2], blankCounts)
                    /\ parsed.e[i][2].t = "string"}
    IN  IF first # {}
        THEN LET v == Get(parsed, candidateKeys[Min(first)])
             IN  IF v.t = "string" THEN trim(v.s) ELSE NestedId(v)
        ELSE IF other # {} THEN trim(parsed.e[Min(other)][2].s)
        ELSE text

\* The step is a decode, by the scan-log page, of a text that is a JSON object
ObjectScan ==
    /\ ev'.op = "scan"
    /\ \E raw \in (CodecScans \cup IdScans) \cap {ev'.arg} : Scan_log(raw)
    /\ JSONparse(trim(ev'.arg)).t = "object"

\* C29, as the code has it: the device id of a decoded JSON object is the
\* trimmed value of the first key of (deviceId, deviceID, device_id, id,
\* device) that holds a string which is not blank, or the nested id,
\* as a trimmed string, when that key holds an object whose id is truthy;
\* failing that, the trimmed value of the first key, in the object's order,
\* whose name contains "id" in any case and whose value is a string that is
\* not blank; failing that, the trimmed text.  It is never empty, and the
\* saved item carries it with the parsed object as metadata.
C29_DeviceIdExtraction ==
    [][ ObjectScan =>
          LET parsed == JSONparse(trim(ev'.arg))
              id == IdByRule(parsed, trim(ev'.arg), FALSE)
          IN  /\ id # ""
              /\ ev'.out \in {"saved", "duplicate", "debounced"}
              /\ ev'.out = "saved" =>
                    /\ st'.scannedItems[1].deviceId = id
                    /\ st'.scannedItems[1].metadata = parsed
              /\ ev'.out = "duplicate" => id \in deviceIdSet(rendered) ]_vars

\* C29's case: the text's deviceId is blank, and the item was saved under
\* the value of its id key
C29_Witness ==
    /\ variant = "log"
    /\ ev.op = "scan" /\ ev.arg = P_BlankId /\ ev.out = "saved"
    /\ st.scannedItems[1].deviceId = "d1"
    /\ st.scannedItems[1].metadata = JSONparse(P_BlankId)

\* C29 as first stated: the first of the keys that holds a string decides,
\* whatever the string.
C29_FirstString ==
    [][ ObjectScan /\ ev'.out = "saved" =>
          /\ st'.scannedItems[1].deviceId = IdByRule(JSONparse(trim(ev'.arg)), ev'.arg, TRUE)
          /\ st'.scannedItems[1].metadata = JSONparse(trim(ev'.arg)) ]_vars

\* C30: a reload of the lock/PIN page leaves the storage as it is and
\* starts the page locked; the mount effects that follow settle the mode on
\* self check-in, keep the lock engaged, and set the ledger and the
\* attempt flag in memory to the stored ones; and the first decode after
\* the reload on a device whose stored flag is set is no self check-in: it
\* is refused and leaves the ledger as it was.
C30_Reload ==
    [][ /\ Reload =>
              /\ ls' = ls
              /\ ~st'.organizerUnlocked /\ ~rendered'.organizerUnlocked
              /\ "mount" \in effects'
        /\ FlushEffects /\ "mount" \in effects =>
              /\ st'.mode = "self" /\ ~st'.organizerUnlocked
              /\ st'.entries = ls.list /\ ls'.list = ls.list
              /\ st'.selfAttempted <=> ls.self = "true"
              /\ ls'.self = ls.self
        /\ ScanStep_lock /\ ev.op = "reload" /\ ls.self = "true" =>
              /\ ev'.out \in {"already-checked-in", "locked"}
              /\ st = rendered => ev'.out = "already-checked-in" /\ st'.scanError = AlreadyMsg
              /\ LedgerUnchanged /\ ls'.self = "true" ]_vars

\* C30's case: the page held a record, was unlocked and in scanner mode
\* when it was reloaded; it is locked and in self mode again, holds the
\* stored record, and has refused a decode as already checked in
C30_Witness ==
    /\ variant = "lock"
    /\ ev.op = "scan" /\ ev.out = "already-checked-in"
    /\ ~st.organizerUnlocked /\ st.mode = "self"
    /\ st.selfAttempted /\ ls.self = "true"
    /\ st.entries # <<>> /\ st.entries = ls.list

-----------------------------------------------------------------------------
(* The debounce flag comes down, self check-in reads no payload *)

\* C31: on the ledger pages, while the justScanned flag is up a timer that
\* clears it is pending, due no later than 1200 ms from now; the flag,
\* once up, comes down again, in the state and in the render, whatever
\* the user does meanwhile and also when nothing is done; and a decode
\* handled by a render whose flag is down is reconciled.
C31_SuppressionEnds ==
    /\ [](st.justScanned => \E d \in timers : d <= now + JustScannedMs)
    /\ [][ScanStep_lock \/ ScanStep_org =>
              (~rendered.justScanned => ev'.out # "debounced" /\ st'.justScanned)]_vars
    /\ (st.justScanned \/ rendered.justScanned)
          ~> (~st.justScanned /\ ~rendered.justScanned)

\* C31's case: a decode was admitted, the timer brought the flag down, and
\* the next decode, a tick later, was admitted too
C31_Witness ==
    /\ ev.op = "scan" /\ ev.out = "added"
    /\ Len(st.entries) = MaxEntries
    /\ \A k \in kept : k.via # ""
    /\ st.entries[MaxEntries].timestamp + JustScannedMs <= st.entries[1].timestamp
    /\ st.entries[1].timestamp = ev.t

\* C32: on the lock/PIN page, a decode handled by a render that is in self
\* mode, with the attempt flag and the debounce flag down, is a self
\* check-in whatever the text, a blank one or one without a name included:
\* it sets the attempt flag in memory and in storage, shows the
\* confirmation, and leaves a state in which nothing depends on the text;
\* no record is added.
C32_SelfUnvalidated ==
    [][ ev'.op = "scan" =>
          \A raw \in InputScans \cap {ev'.arg} :
              ( /\ Scan_lock(raw)
                /\ rendered.mode = "self"
                /\ ~rendered.selfAttempted /\ ~rendered.justScanned )
              => /\ ev'.out = "self-confirmed"
                 /\ st' = [st EXCEPT !.justScanned = TRUE, !.selfAttempted = TRUE,
                                     !.scanError = "", !.infoMessage = SelfOkMsg]
                 /\ ls' = [ls EXCEPT !.self = "true"]
                 /\ (now + JustScannedMs) \in timers'
                 /\ kept' = kept ]_vars

\* C32's case: a blank text was decoded in self mode and took the device's
\* attempt
C32_Witness ==
    /\ variant = "lock"
    /\ ev.op = "scan" /\ ev.arg = P_Blank /\ ev.out = "self-confirmed"
    /\ st.mode = "self" /\ st.selfAttempted /\ ls.self = "true"
    /\ st.infoMessage = SelfOkMsg
    /\ st.entries = <<>> /\ ls.list = <<>>

====
